---- MODULE Spec2Model ----
\* Model of network_config_tool.py: the per-device orchestration
\* (configure_device) run by a bounded thread pool (configure_devices_parallel).
EXTENDS Integers, Sequences, FiniteSets, TLC

\* ---------------------------------------------------------------- bounds
NumDevices == 2        \* largest fleet that is explored
MaxWorkers == 2        \* largest max_workers that is explored
MaxLen == 2            \* longest configuration text (in characters) of a one-device run
MaxCalls == 4          \* longest sequence of calls on one NetworkDevice

\* ---------------------------------------------------------------- texts
NL == "\n"
Alphabet == {"a", NL}

RECURSIVE TextsUpTo(_)
TextsUpTo(k) ==
    IF k = 0 THEN {<<>>}
    ELSE LET shorter == TextsUpTo(k - 1)
         IN  shorter \cup {Append(t, c) : t \in {s \in shorter : Len(s) = k - 1}, c \in Alphabet}

\* Running configurations a device can show: every text up to MaxLen for a
\* one-device run, two texts for a fleet of two, one text for a larger fleet.
DeviceTexts(n) ==
    IF n = 1 THEN TextsUpTo(MaxLen)
    ELSE IF n = 2 THEN {<<"a">>, <<"a", "a">>}
    ELSE {<<"a">>}

\* Texts the template can render to: every text up to MaxLen for a one-device
\* run, the fleet's running configuration and a different one for a fleet.
RenderTexts(n) == IF n = 1 THEN TextsUpTo(MaxLen) ELSE {<<"a">>, <<"a", "a">>}

\* str.split('\n') (render_config): always at least one field, an empty last
\* field after a trailing newline.
RECURSIVE SplitFrom(_, _)
SplitFrom(t, cur) ==
    IF t = <<>> THEN <<cur>>
    ELSE IF Head(t) = NL THEN <<cur>> \o SplitFrom(Tail(t), <<>>)
    ELSE SplitFrom(Tail(t), Append(cur, Head(t)))

Split(t) == SplitFrom(t, <<>>)

\* str.splitlines() (configure_device): a newline terminates a line, so no
\* empty last line after a trailing newline and no line at all for "".
RECURSIVE SplitLinesFrom(_, _)
SplitLinesFrom(t, cur) ==
    IF t = <<>> THEN (IF cur = <<>> THEN <<>> ELSE <<cur>>)
    ELSE IF Head(t) = NL THEN <<cur>> \o SplitLinesFrom(Tail(t), <<>>)
    ELSE SplitLinesFrom(Tail(t), Append(cur, Head(t)))

SplitLines(t) == SplitLinesFrom(t, <<>>)

\* Length of a longest common subsequence of two line sequences.
RECURSIVE LCSLen(_, _)
LCSLen(a, b) ==
    IF a = <<>> \/ b = <<>> THEN 0
    ELSE IF Head(a) = Head(b) THEN 1 + LCSLen(Tail(a), Tail(b))
    ELSE LET x == LCSLen(Tail(a), b)
             y == LCSLen(a, Tail(b))
         IN  IF x >= y THEN x ELSE y

\* Edit script from a to b: " " context, "-" removed, "+" added.
RECURSIVE DiffOps(_, _)
DiffOps(a, b) ==
    IF a = <<>> /\ b = <<>> THEN <<>>
    ELSE IF a = <<>> THEN <<[tag |-> "+", line |-> Head(b)]>> \o DiffOps(a, Tail(b))
    ELSE IF b = <<>> THEN <<[tag |-> "-", line |-> Head(a)]>> \o DiffOps(Tail(a), b)
    ELSE IF Head(a) = Head(b)
         THEN <<[tag |-> " ", line |-> Head(a)]>> \o DiffOps(Tail(a), Tail(b))
    ELSE IF LCSLen(Tail(a), b) >= LCSLen(a, Tail(b))
         THEN <<[tag |-> "-", line |-> Head(a)]>> \o DiffOps(Tail(a), b)
         ELSE <<[tag |-> "+", line |-> Head(b)]>> \o DiffOps(a, Tail(b))

HasEdit(ops) == \E i \in 1..Len(ops) : ops[i].tag \in {"+", "-"}

\* Variant of UnifiedDiff that reports added lines only.
UnifiedDiffAddedOnly(a, b) ==
    LET ops == DiffOps(a, b)
    IN  IF ~(\E i \in 1..Len(ops) : ops[i].tag = "+") THEN <<>>
        ELSE <<[tag |-> "--- Current Config", line |-> <<>>],
               [tag |-> "+++ New Config", line |-> <<>>],
               [tag |-> "@@", line |-> <<>>]>> \o ops

\* difflib.unified_diff(..., lineterm=""): nothing at all when there is no
\* edit, otherwise the two file headers, a hunk header and the hunk.
UnifiedDiff(a, b) ==
    LET ops == DiffOps(a, b)
    IN  IF ~HasEdit(ops) THEN <<>>
        ELSE <<[tag |-> "--- Current Config", line |-> <<>>],
               [tag |-> "+++ New Config", line |-> <<>>],
               [tag |-> "@@", line |-> <<>>]>> \o ops

\* ---------------------------------------------------------------- inventory
\* A device record: its hostname and whether it has all four keys
\* configure_device reads.
Rec(h, c) == [hostname |-> h, complete |-> c]

Inventories ==
    UNION { { [d \in 1..n |-> Rec(d, TRUE)],
              [d \in 1..n |-> Rec(IF d = 2 THEN 1 ELSE d, TRUE)],
              [d \in 1..n |-> Rec(d, d # 1)] } : n \in 1..NumDevices }

VARIABLES
    devices,        \* the inventory handed to configure_devices_parallel
    max_workers,    \* its max_workers argument
    cpc,            \* position of configure_devices_parallel
    submitted,      \* number of executor.submit calls made
    queue,          \* the executor's work queue (device indices)
    numThreads,     \* worker threads the executor has started
    idleSem,        \* the executor's idle semaphore
    yielded,        \* futures as_completed has handed to the loop
    coordRaised,    \* future.result() raised in the loop
    pc,             \* per device: position of its work item / configure_device
    connection,     \* per device: NetworkDevice.connection is set
    config,         \* per device: backup_config's local text
    new_config,     \* per device: rendered lines
    current_config, \* per device: fetched lines
    diff,           \* per device: the unified diff
    trace,          \* per device: the calls made so far, with their result
    outcome,        \* per device: outcome log lines written
    sent,           \* per device: arguments of connection.send_config_set
    raised,         \* per device: an exception left configure_device
    file,           \* per hostname: the backup file
    mpc,            \* position of main
    args_discover,  \* main: --discover was given
    inventory,      \* main: the device list in the file of --devices
    arp_sent,       \* main: discover_devices has sent its ARP sweep
    discovered_devices  \* main: the addresses discover_devices returned

vars == <<devices, max_workers, cpc, submitted, queue, numThreads, idleSem,
          yielded, coordRaised, pc, connection, config, new_config,
          current_config, diff, trace, outcome, sent, raised, file,
          mpc, args_discover, inventory, arp_sent, discovered_devices>>

coordVars == <<cpc, submitted, yielded, coordRaised>>
poolVars == <<queue, numThreads, idleSem>>
localVars == <<connection, config, new_config, current_config, diff>>
mainVars == <<mpc, args_discover, inventory, arp_sent, discovered_devices>>
\* What configure_devices_parallel is called with, and its caller's state:
\* nothing in it or below it changes them.
inputVars == <<devices, max_workers, mainVars>>

N == Len(devices)
Devs == 1..N
Hosts == 1..NumDevices + 1

\* A call, its result (returned or raised) and the text it returned.
Ev(op, ok, val) == [op |-> op, ok |-> ok, val |-> val]
Did(d, op) == \E i \in 1..Len(trace[d]) : trace[d][i].op = op
DidOk(d, op) == \E i \in 1..Len(trace[d]) : trace[d][i].op = op /\ trace[d][i].ok
DidFail(d, op) == \E i \in 1..Len(trace[d]) : trace[d][i].op = op /\ ~trace[d][i].ok
Count(d, op) == Cardinality({i \in 1..Len(trace[d]) : trace[d][i].op = op})
CountOk(d, op) ==
    Cardinality({i \in 1..Len(trace[d]) : trace[d][i].op = op /\ trace[d][i].ok})
Running == {d \in Devs : pc[d] \notin {"unsubmitted", "queued", "done"}}

NoFile == [exists |-> FALSE, content |-> <<>>, writers |-> {}]

\* A write of text t at offset 0 of a file that holds content: what lies
\* beyond the end of t stays.
Overlay(content, t) == t \o SubSeq(content, Len(t) + 1, Len(content))

Init ==
    /\ devices \in Inventories
    /\ max_workers \in 1..MaxWorkers
    /\ cpc = "submit"
    /\ submitted = 0
    /\ queue = <<>>
    /\ numThreads = 0
    /\ idleSem = 0
    /\ yielded = {}
    /\ coordRaised = FALSE
    /\ pc = [d \in Devs |-> "unsubmitted"]
    /\ connection = [d \in Devs |-> FALSE]
    /\ config = [d \in Devs |-> <<>>]
    /\ new_config = [d \in Devs |-> <<>>]
    /\ current_config = [d \in Devs |-> <<>>]
    /\ diff = [d \in Devs |-> <<>>]
    /\ trace = [d \in Devs |-> <<>>]
    /\ outcome = [d \in Devs |-> <<>>]
    /\ sent = [d \in Devs |-> <<>>]
    /\ raised = [d \in Devs |-> FALSE]
    /\ file = [h \in Hosts |-> NoFile]
    /\ mpc = "configure"
    /\ args_discover = FALSE
    /\ inventory = devices
    /\ arp_sent = FALSE
    /\ discovered_devices = <<>>

\* ---------------------------------------------------------------- coordinator
\* Variant of Submit that starts a thread for every work item.
SubmitSpawnsAlways ==
    /\ cpc = "submit"
    /\ submitted < N
    /\ submitted' = submitted + 1
    /\ pc' = [pc EXCEPT ![submitted + 1] = "queued"]
    /\ queue' = Append(queue, submitted + 1)
    /\ idleSem' = idleSem
    /\ numThreads' = numThreads + 1
    /\ UNCHANGED <<inputVars, cpc, yielded, coordRaised, localVars, trace,
                   outcome, sent, raised, file>>

\* executor.submit: queue the work item, then _adjust_thread_count.
Submit ==
    /\ cpc = "submit"
    /\ submitted < N
    /\ submitted' = submitted + 1
    /\ pc' = [pc EXCEPT ![submitted + 1] = "queued"]
    /\ queue' = Append(queue, submitted + 1)
    /\ IF idleSem > 0
       THEN idleSem' = idleSem - 1 /\ numThreads' = numThreads
       ELSE /\ idleSem' = idleSem
            /\ numThreads' = IF numThreads < max_workers THEN numThreads + 1 ELSE numThreads
    /\ UNCHANGED <<inputVars, cpc, yielded, coordRaised, localVars, trace,
                   outcome, sent, raised, file>>

\* The list of futures is complete: the as_completed loop starts.
StartLoop ==
    /\ cpc = "submit"
    /\ submitted = N
    /\ cpc' = "loop"
    /\ UNCHANGED <<inputVars, submitted, yielded, coordRaised, poolVars, pc,
                   localVars, trace, outcome, sent, raised, file>>

\* Variant of Collect that cancels the queued work items when a future raised.
CollectCancelsQueued(d) ==
    /\ cpc = "loop"
    /\ d \notin yielded
    /\ pc[d] = "done"
    /\ yielded' = yielded \cup {d}
    /\ coordRaised' = raised[d]
    /\ cpc' = IF raised[d] THEN "shutdown" ELSE "loop"
    /\ queue' = IF raised[d] THEN <<>> ELSE queue
    /\ pc' = IF raised[d]
             THEN [e \in Devs |-> IF pc[e] = "queued" THEN "done" ELSE pc[e]]
             ELSE pc
    /\ UNCHANGED <<inputVars, submitted, numThreads, idleSem, localVars, trace,
                   outcome, sent, raised, file>>

\* as_completed yields a finished future and future.result() returns or
\* re-raises what configure_device raised, which leaves the loop.
Collect(d) ==
    /\ cpc = "loop"
    /\ d \notin yielded
    /\ pc[d] = "done"
    /\ yielded' = yielded \cup {d}
    /\ coordRaised' = raised[d]
    /\ cpc' = IF raised[d] THEN "shutdown" ELSE "loop"
    /\ UNCHANGED <<inputVars, submitted, poolVars, pc, localVars, trace,
                   outcome, sent, raised, file>>

\* as_completed is exhausted: the with block ends.
EndLoop ==
    /\ cpc = "loop"
    /\ yielded = Devs
    /\ cpc' = "shutdown"
    /\ UNCHANGED <<inputVars, submitted, yielded, coordRaised, poolVars, pc,
                   localVars, trace, outcome, sent, raised, file>>

\* Variant of Shutdown that does not wait for the workers.
ShutdownNoWait ==
    /\ cpc = "shutdown"
    /\ cpc' = "returned"
    /\ UNCHANGED <<inputVars, submitted, yielded, coordRaised, poolVars, pc,
                   localVars, trace, outcome, sent, raised, file>>

\* ThreadPoolExecutor.__exit__: shutdown(wait=True) joins the workers, which
\* first drain the queue; then the call returns or the exception goes on.
Shutdown ==
    /\ cpc = "shutdown"
    /\ queue = <<>>
    /\ Running = {}
    /\ cpc' = "returned"
    /\ UNCHANGED <<inputVars, submitted, yielded, coordRaised, poolVars, pc,
                   localVars, trace, outcome, sent, raised, file>>

\* ---------------------------------------------------------------- worker
\* The results a call can have: every call can fail in fleets of up to two
\* devices; in larger fleets the calls that fail are connect, the backup write
\* and the push.
Results(op) ==
    IF N <= 2 \/ op \in {"connect", "write", "send_config_set"}
    THEN BOOLEAN ELSE {TRUE}

Log(d, op, ok, val) == [trace EXCEPT ![d] = Append(@, Ev(op, ok, val))]
Goto(d, to) == [pc EXCEPT ![d] = to]

\* _worker: an idle worker thread takes the oldest work item and runs it.
Take(d) ==
    /\ queue # <<>>
    /\ Head(queue) = d
    /\ Cardinality(Running) < numThreads
    /\ queue' = Tail(queue)
    /\ pc' = Goto(d, "build")
    /\ UNCHANGED <<inputVars, coordVars, numThreads, idleSem, localVars,
                   trace, outcome, sent, raised, file>>

\* NetworkDevice(device_info['hostname'], ...), before the try: a record
\* without one of the keys raises KeyError out of configure_device, and the
\* work item ends with that exception.
Build(d) ==
    /\ pc[d] = "build"
    /\ trace' = Log(d, "build", devices[d].complete, <<>>)
    /\ IF devices[d].complete
       THEN /\ pc' = Goto(d, "connect")
            /\ UNCHANGED <<raised, idleSem>>
       ELSE /\ pc' = Goto(d, "done")
            /\ raised' = [raised EXCEPT ![d] = TRUE]
            /\ idleSem' = idleSem + 1
    /\ UNCHANGED <<inputVars, coordVars, queue, numThreads, localVars,
                   outcome, sent, file>>

\* Variant of Connect that goes on to render without the backup.
ConnectSkipsBackup(d) ==
    /\ pc[d] = "connect"
    /\ \E ok \in Results("connect") :
         /\ trace' = Log(d, "connect", ok, <<>>)
         /\ connection' = [connection EXCEPT ![d] = ok]
         /\ pc' = Goto(d, IF ok THEN "render" ELSE "except")
    /\ UNCHANGED <<inputVars, coordVars, poolVars, config, new_config,
                   current_config, diff, outcome, sent, raised, file>>

\* NetworkDevice.connect: ConnectHandler returns a connection or raises.
Connect(d) ==
    /\ pc[d] = "connect"
    /\ \E ok \in Results("connect") :
         /\ trace' = Log(d, "connect", ok, <<>>)
         /\ connection' = [connection EXCEPT ![d] = ok]
         /\ pc' = Goto(d, IF ok THEN "backup_fetch" ELSE "except")
    /\ UNCHANGED <<inputVars, coordVars, poolVars, config, new_config,
                   current_config, diff, outcome, sent, raised, file>>

\* Variant of BackupFetch that goes on to write the backup after a failed fetch.
BackupFetchIgnoresFailure(d) ==
    /\ pc[d] = "backup_fetch"
    /\ \/ \E t \in DeviceTexts(N) :
            /\ trace' = Log(d, "send_command", TRUE, t)
            /\ config' = [config EXCEPT ![d] = t]
       \/ /\ FALSE \in Results("send_command")
          /\ trace' = Log(d, "send_command", FALSE, <<>>)
          /\ UNCHANGED config
    /\ pc' = Goto(d, "backup_open")
    /\ UNCHANGED <<inputVars, coordVars, poolVars, connection, new_config,
                   current_config, diff, outcome, sent, raised, file>>

\* backup_config: config = device.get_config().
BackupFetch(d) ==
    /\ pc[d] = "backup_fetch"
    /\ IF ~connection[d]
       THEN /\ pc' = Goto(d, "except")
            /\ UNCHANGED <<trace, config>>
       ELSE \/ \E t \in DeviceTexts(N) :
                 /\ trace' = Log(d, "send_command", TRUE, t)
                 /\ config' = [config EXCEPT ![d] = t]
                 /\ pc' = Goto(d, "backup_open")
            \/ /\ FALSE \in Results("send_command")
               /\ trace' = Log(d, "send_command", FALSE, <<>>)
               /\ pc' = Goto(d, "except")
               /\ UNCHANGED config
    /\ UNCHANGED <<inputVars, coordVars, poolVars, connection, new_config,
                   current_config, diff, outcome, sent, raised, file>>

\* Variant of BackupOpen that names the file without the hostname.
BackupOpenOneFile(d) ==
    /\ pc[d] = "backup_open"
    /\ \E ok \in Results("open") :
         /\ trace' = Log(d, "open", ok, <<>>)
         /\ pc' = Goto(d, IF ok THEN "backup_write" ELSE "except")
         /\ file' = IF ok
                    THEN [file EXCEPT ![1] =
                            [exists |-> TRUE, content |-> <<>>,
                             writers |-> @.writers \cup {d}]]
                    ELSE file
    /\ UNCHANGED <<inputVars, coordVars, poolVars, localVars, outcome, sent,
                   raised>>

\* backup_config: open(filename, 'w') creates or truncates the file of the
\* device's hostname, or fails.
BackupOpen(d) ==
    /\ pc[d] = "backup_open"
    /\ \E ok \in Results("open") :
         /\ trace' = Log(d, "open", ok, <<>>)
         /\ pc' = Goto(d, IF ok THEN "backup_write" ELSE "except")
         /\ file' = IF ok
                    THEN [file EXCEPT ![devices[d].hostname] =
                            [exists |-> TRUE, content |-> <<>>,
                             writers |-> @.writers \cup {d}]]
                    ELSE file
    /\ UNCHANGED <<inputVars, coordVars, poolVars, localVars, outcome, sent,
                   raised>>

\* Variant of BackupWrite that swallows a failed write and goes on.
BackupWriteSwallowsFailure(d) ==
    /\ pc[d] = "backup_write"
    /\ \/ /\ trace' = Log(d, "write", TRUE, <<>>)
          /\ file' = [file EXCEPT ![devices[d].hostname].content =
                        Overlay(@, config[d])]
       \/ /\ FALSE \in Results("write")
          /\ trace' = Log(d, "write", FALSE, <<>>)
          /\ file' = [file EXCEPT ![devices[d].hostname].content = <<>>]
    /\ pc' = Goto(d, "render")
    /\ UNCHANGED <<inputVars, coordVars, poolVars, localVars, outcome, sent,
                   raised>>

\* backup_config: file.write(config) and the end of the with block; a failed
\* write leaves some proper prefix of the text behind.
BackupWrite(d) ==
    /\ pc[d] = "backup_write"
    /\ \/ /\ trace' = Log(d, "write", TRUE, <<>>)
          /\ file' = [file EXCEPT ![devices[d].hostname].content =
                        Overlay(@, config[d])]
          /\ pc' = Goto(d, "render")
       \/ /\ FALSE \in Results("write")
          /\ trace' = Log(d, "write", FALSE, <<>>)
          /\ \E k \in 0..Len(config[d]) :
               /\ k < Len(config[d]) \/ k = 0
               /\ file' = [file EXCEPT ![devices[d].hostname].content =
                             Overlay(@, SubSeq(config[d], 1, k))]
          /\ pc' = Goto(d, "except")
    /\ UNCHANGED <<inputVars, coordVars, poolVars, localVars, outcome, sent,
                   raised>>

\* render_config: template.render(device) may raise; the text is split at
\* every newline.
Render(d) ==
    /\ pc[d] = "render"
    /\ \/ \E t \in RenderTexts(N) :
            /\ trace' = Log(d, "render", TRUE, t)
            /\ new_config' = [new_config EXCEPT ![d] = Split(t)]
            /\ pc' = Goto(d, "fetch")
       \/ /\ FALSE \in Results("render")
          /\ trace' = Log(d, "render", FALSE, <<>>)
          /\ pc' = Goto(d, "except")
          /\ UNCHANGED new_config
    /\ UNCHANGED <<inputVars, coordVars, poolVars, connection, config,
                   current_config, diff, outcome, sent, raised, file>>

\* Variant of Fetch that diffs the text backup_config fetched.
FetchReusesBackup(d) ==
    /\ pc[d] = "fetch"
    /\ current_config' = [current_config EXCEPT ![d] = SplitLines(config[d])]
    /\ pc' = Goto(d, "diff")
    /\ UNCHANGED <<inputVars, coordVars, poolVars, connection, config,
                   new_config, diff, trace, outcome, sent, raised, file>>

\* configure_device: current_config = device.get_config().splitlines(), a
\* second "show running-config".
Fetch(d) ==
    /\ pc[d] = "fetch"
    /\ IF ~connection[d]
       THEN /\ pc' = Goto(d, "except")
            /\ UNCHANGED <<trace, current_config>>
       ELSE \/ \E t \in DeviceTexts(N) :
                 /\ trace' = Log(d, "send_command", TRUE, t)
                 /\ current_config' = [current_config EXCEPT ![d] = SplitLines(t)]
                 /\ pc' = Goto(d, "diff")
            \/ /\ FALSE \in Results("send_command")
               /\ trace' = Log(d, "send_command", FALSE, <<>>)
               /\ pc' = Goto(d, "except")
               /\ UNCHANGED current_config
    /\ UNCHANGED <<inputVars, coordVars, poolVars, connection, config,
                   new_config, diff, outcome, sent, raised, file>>

\* Variant of Diff that takes the apply branch whatever the diff is.
DiffAlwaysApplies(d) ==
    /\ pc[d] = "diff"
    /\ diff' = [diff EXCEPT ![d] = UnifiedDiff(current_config[d], new_config[d])]
    /\ trace' = Log(d, "diff", TRUE, <<>>)
    /\ pc' = Goto(d, "apply")
    /\ UNCHANGED <<inputVars, coordVars, poolVars, connection, config,
                   new_config, current_config, sent, raised, file, outcome>>

\* configure_device: the unified diff and the branch on it; the else branch
\* logs that no change is needed.
Diff(d) ==
    /\ pc[d] = "diff"
    /\ LET dl == UnifiedDiff(current_config[d], new_config[d])
       IN  /\ diff' = [diff EXCEPT ![d] = dl]
           /\ trace' = Log(d, "diff", TRUE, <<>>)
           /\ IF dl # <<>>
              THEN pc' = Goto(d, "apply") /\ UNCHANGED outcome
              ELSE /\ pc' = Goto(d, "close")
                   /\ outcome' = [outcome EXCEPT ![d] = Append(@, "NoChangeNeeded")]
    /\ UNCHANGED <<inputVars, coordVars, poolVars, connection, config,
                   new_config, current_config, sent, raised, file>>

\* configure_device: device.send_config_set(new_config), then the success log.
Apply(d) ==
    /\ pc[d] = "apply"
    /\ IF ~connection[d]
       THEN /\ pc' = Goto(d, "except")
            /\ UNCHANGED <<trace, sent, outcome>>
       ELSE \E ok \in Results("send_config_set") :
              /\ trace' = Log(d, "send_config_set", ok, <<>>)
              /\ sent' = [sent EXCEPT ![d] = Append(@, new_config[d])]
              /\ pc' = Goto(d, IF ok THEN "close" ELSE "except")
              /\ outcome' = IF ok THEN [outcome EXCEPT ![d] = Append(@, "Applied")]
                            ELSE outcome
    /\ UNCHANGED <<inputVars, coordVars, poolVars, localVars, raised, file>>

\* Variant of Except that returns without the finally block.
ExceptNoFinally(d) ==
    /\ pc[d] = "except"
    /\ outcome' = [outcome EXCEPT ![d] = Append(@, "Failed")]
    /\ pc' = Goto(d, "done")
    /\ idleSem' = idleSem + 1
    /\ UNCHANGED <<inputVars, coordVars, queue, numThreads, localVars, trace,
                   sent, raised, file>>

\* configure_device: except Exception logs the failure.
Except(d) ==
    /\ pc[d] = "except"
    /\ outcome' = [outcome EXCEPT ![d] = Append(@, "Failed")]
    /\ pc' = Goto(d, "close")
    /\ UNCHANGED <<inputVars, coordVars, poolVars, localVars, trace, sent,
                   raised, file>>

\* configure_device: finally device.close(), which disconnects a set
\* connection; what disconnect raises leaves configure_device. The call is
\* over (its locals are gone), the work item is finished and the worker
\* releases the idle semaphore.
Close(d) ==
    /\ pc[d] = "close"
    /\ IF connection[d]
       THEN \E ok \in Results("disconnect") :
              /\ trace' = Log(d, "disconnect", ok, <<>>)
              /\ raised' = [raised EXCEPT ![d] = ~ok]
       ELSE UNCHANGED <<trace, raised>>
    /\ pc' = Goto(d, "done")
    /\ idleSem' = idleSem + 1
    /\ config' = [config EXCEPT ![d] = <<>>]
    /\ new_config' = [new_config EXCEPT ![d] = <<>>]
    /\ current_config' = [current_config EXCEPT ![d] = <<>>]
    /\ diff' = [diff EXCEPT ![d] = <<>>]
    /\ UNCHANGED <<inputVars, coordVars, queue, numThreads, connection,
                   outcome, sent, file>>

Step(d) ==
    \/ Build(d) \/ Connect(d) \/ BackupFetch(d) \/ BackupOpen(d)
    \/ BackupWrite(d) \/ Render(d) \/ Fetch(d) \/ Diff(d) \/ Apply(d)
    \/ Except(d) \/ Close(d)

Coordinator == Submit \/ StartLoop \/ (\E d \in Devs : Collect(d)) \/ EndLoop \/ Shutdown

Next ==
    \/ Submit
    \/ StartLoop
    \/ \E d \in Devs : Collect(d)
    \/ EndLoop
    \/ Shutdown
    \/ \E d \in Devs : Take(d)
    \/ \E d \in Devs : Build(d)
    \/ \E d \in Devs : Connect(d)
    \/ \E d \in Devs : BackupFetch(d)
    \/ \E d \in Devs : BackupOpen(d)
    \/ \E d \in Devs : BackupWrite(d)
    \/ \E d \in Devs : Render(d)
    \/ \E d \in Devs : Fetch(d)
    \/ \E d \in Devs : Diff(d)
    \/ \E d \in Devs : Apply(d)
    \/ \E d \in Devs : Except(d)
    \/ \E d \in Devs : Close(d)

Spec == Init /\ [][Next]_vars

TypeOK ==
    /\ cpc \in {"idle", "submit", "loop", "shutdown", "returned"}
    /\ submitted \in 0..N
    /\ numThreads \in 0..max_workers
    /\ \A d \in Devs : Len(outcome[d]) <= 2

\* Each device's work item is scheduled fairly once a worker is free, its
\* blocking calls return or fail, and the calling thread keeps running.
Worker(d) == d \in Devs /\ (Take(d) \/ Step(d))

SpecLive ==
    Spec /\ WF_vars(Coordinator) /\ \A d \in 1..NumDevices : WF_vars(Worker(d))

\* ---------------------------------------------------------------- properties
\* Position in the trace of device d of the first call of op, 0 if none.
FirstIndex(d, op) ==
    IF Did(d, op)
    THEN CHOOSE i \in 1..Len(trace[d]) :
           /\ trace[d][i].op = op
           /\ \A j \in 1..(i - 1) : trace[d][j].op # op
    ELSE 0

FailureRecorded(d) == \E k \in 1..Len(outcome[d]) : outcome[d][k] = "Failed"

\* C1: a send_config_set call of a device comes only after that device's
\* backup was attempted and either written or its failure recorded.
C1_BackupBeforeSend ==
    \A d \in Devs : \A i \in 1..Len(trace[d]) :
        trace[d][i].op = "send_config_set" =>
            \E j \in 1..(i - 1) :
                /\ trace[d][j].op = "write"
                /\ trace[d][j].ok \/ FailureRecorded(d)

C1_Witness ==
    \E d \in Devs : Did(d, "send_config_set") /\ DidOk(d, "write")

\* The fetch made by backup_config (the first send_command) failed.
BackupFetchFailed(d) ==
    /\ Did(d, "send_command")
    /\ ~trace[d][FirstIndex(d, "send_command")].ok

\* The fetch made by configure_device for the diff (the second send_command)
\* failed.
DiffFetchFailed(d) ==
    /\ Count(d, "send_command") = 2
    /\ DidFail(d, "send_command")
    /\ trace[d][FirstIndex(d, "send_command")].ok

\* C2 as stated: after a failed connect or a failed fetch there is no backup
\* file, no render, no diff and no send_config_set, and the run ends Failed.
C2_AsStated ==
    \A d \in Devs :
        (DidFail(d, "connect") \/ DidFail(d, "send_command")) =>
            /\ ~Did(d, "open") /\ ~Did(d, "write")
            /\ ~Did(d, "render") /\ ~Did(d, "diff")
            /\ ~Did(d, "send_config_set")
            /\ pc[d] = "done" => outcome[d] = <<"Failed">>

\* C2 amended: that holds after a failed connect or a failed backup fetch;
\* after a failed second fetch the backup is written and the render done, but
\* there is still no diff and no send_config_set, and the run ends Failed.
C2_FailedConnectOrFetch ==
    \A d \in Devs :
        /\ (DidFail(d, "connect") \/ BackupFetchFailed(d)) =>
              /\ ~Did(d, "open") /\ ~Did(d, "write")
              /\ ~Did(d, "render") /\ ~Did(d, "diff")
              /\ ~Did(d, "send_config_set")
              /\ pc[d] = "done" => outcome[d] = <<"Failed">>
        /\ DiffFetchFailed(d) =>
              /\ DidOk(d, "write") /\ DidOk(d, "render")
              /\ ~Did(d, "diff") /\ ~Did(d, "send_config_set")
              /\ pc[d] = "done" => outcome[d] = <<"Failed">>

C2_Witness ==
    /\ \E d \in Devs : pc[d] = "done" /\ BackupFetchFailed(d)
    /\ \E d \in Devs : pc[d] = "done" /\ DiffFetchFailed(d)

\* C3: at most one open per run; a disconnect only on a session whose connect
\* succeeded, at most once and as the last call on it; after the return of
\* configure_device as many disconnects as successful connects.
C3_OneOpenOneClose ==
    \A d \in Devs :
        /\ Count(d, "connect") <= 1
        /\ Count(d, "disconnect") <= CountOk(d, "connect")
        /\ Did(d, "disconnect") => trace[d][Len(trace[d])].op = "disconnect"
        /\ pc[d] = "done" => Count(d, "disconnect") = CountOk(d, "connect")

C3_Witness ==
    /\ \E d \in Devs : pc[d] = "done" /\ DidFail(d, "send_config_set")
                          /\ Count(d, "disconnect") = 1
    /\ \E d \in Devs : pc[d] = "done" /\ DidFail(d, "connect")
                          /\ Count(d, "disconnect") = 0

\* The calls of a run before its disconnect.
Body(tr) ==
    IF tr # <<>> /\ tr[Len(tr)].op = "disconnect" THEN SubSeq(tr, 1, Len(tr) - 1) ELSE tr

StepOps ==
    <<"build", "connect", "send_command", "open", "write", "render",
      "send_command", "diff", "send_config_set">>

\* The texts a run got differ as line sequences (render is call 6, the second
\* fetch call 7).
Drift(b) == SplitLines(b[7].val) # Split(b[6].val)

\* tr is a whole run of configure_device on its own: the steps in order, each
\* begun only after the one before succeeded, ended only by a failure or by
\* the end of the sequence, and a disconnect after it iff connect succeeded.
FullSequence(tr) ==
    LET b == Body(tr)
    IN  /\ Len(b) \in 1..9
        /\ \A i \in 1..Len(b) : b[i].op = StepOps[i] /\ (i < Len(b) => b[i].ok)
        /\ \/ ~b[Len(b)].ok
           \/ Len(b) = 8 /\ ~Drift(b)
           \/ Len(b) = 9 /\ Drift(b)
        /\ (tr # b) <=> (Len(b) >= 2 /\ b[2].ok)

\* The outcome configure_device logs for the responses in tr when it runs alone.
ExpectedOutcome(tr) ==
    LET b == Body(tr)
    IN  IF ~b[1].ok THEN <<>>
        ELSE IF \E i \in 1..Len(b) : ~b[i].ok THEN <<"Failed">>
        ELSE IF Drift(b) THEN <<"Applied">>
        ELSE <<"NoChangeNeeded">>

\* C4: whatever fails in other devices, when configure_devices_parallel is over
\* every device has run its full step sequence and has the outcome its own
\* responses give it in a run on its own.
C4_FailureIsolation ==
    /\ \A d \in Devs :
          pc[d] = "done" => FullSequence(trace[d]) /\ outcome[d] = ExpectedOutcome(trace[d])
    /\ cpc = "returned" => \A d \in Devs : pc[d] = "done"

C4_Witness ==
    /\ cpc = "returned"
    /\ \E d \in Devs, e \in Devs :
          /\ d < e
          /\ raised[d]
          /\ outcome[e] = <<"Applied">>

\* C5: no exception leaves configure_device and configure_devices_parallel
\* does not raise because of a device.
C5_NoExceptionEscapes ==
    /\ \A d \in Devs : ~raised[d]
    /\ ~coordRaised

BackupFailed(d) == DidFail(d, "open") \/ DidFail(d, "write")

\* C6 as stated: after a failed backup write the run still renders and diffs.
C6_AsStated ==
    \A d \in Devs :
        (BackupFailed(d) /\ pc[d] = "done") => Did(d, "render") /\ Did(d, "diff")

\* C6 amended: a failed backup write ends the steps of the device: no render,
\* no diff, no send_config_set, and the outcome is Failed.
C6_BackupFailureAborts ==
    \A d \in Devs :
        BackupFailed(d) =>
            /\ ~Did(d, "render") /\ ~Did(d, "diff") /\ ~Did(d, "send_config_set")
            /\ pc[d] \in {"close", "done"} => outcome[d] = <<"Failed">>

C6_Witness == \E d \in Devs : pc[d] = "done" /\ DidFail(d, "write")

\* C7: at most max_workers orchestrations are between their start and their
\* end, and each device record is dispatched exactly once.
C7_BoundedWorkers ==
    /\ Cardinality(Running) <= max_workers
    /\ \A d \in Devs :
          /\ Count(d, "build") <= 1
          /\ Cardinality({i \in 1..Len(queue) : queue[i] = d}) =
                (IF pc[d] = "queued" THEN 1 ELSE 0)
          /\ pc[d] = "unsubmitted" <=> d > submitted
          /\ cpc = "returned" => Count(d, "build") = 1

C7_Witness ==
    /\ max_workers < N
    /\ Cardinality(Running) = max_workers
    /\ queue # <<>>

\* C8: configure_devices_parallel is over only after every dispatched
\* orchestration has run and finished, also when it raises.
C8_WaitsForAll ==
    cpc = "returned" => \A d \in Devs : Did(d, "build") /\ pc[d] = "done"

C8_Witness ==
    /\ cpc = "returned"
    /\ coordRaised
    /\ \E d \in Devs : d \notin yielded /\ Did(d, "connect")

\* C9: under fair scheduling every device eventually reports an outcome and
\* configure_devices_parallel eventually returns.
C9_AllReport ==
    <>(cpc = "returned" /\ \A d \in Devs : outcome[d] # <<>>)

\* Under fair scheduling configure_devices_parallel is eventually over and
\* every work item finished.
Terminates ==
    <>(cpc = "returned" /\ \A d \in Devs : pc[d] = "done")

\* C10: send_config_set is called iff the diff is non-empty, which is iff the
\* line sequences differ; it is called at most once, with the rendered
\* configuration; with an empty diff nothing is sent and the outcome is
\* NoChangeNeeded.
C10_SendIffDiff ==
    \A d \in Devs :
        /\ Len(sent[d]) <= 1
        /\ Len(sent[d]) = Count(d, "send_config_set")
        /\ ~Did(d, "diff") => sent[d] = <<>>
        /\ (Did(d, "diff") /\ pc[d] \in {"apply", "except", "close"}) =>
              /\ (diff[d] # <<>>) <=> (current_config[d] # new_config[d])
              /\ pc[d] = "apply" => diff[d] # <<>>
              /\ pc[d] # "apply" => (Len(sent[d]) = 1 <=> diff[d] # <<>>)
              /\ sent[d] # <<>> => sent[d][1] = new_config[d]
              /\ (diff[d] = <<>> /\ pc[d] = "close") => outcome[d] = <<"NoChangeNeeded">>
        /\ (pc[d] = "done" /\ Did(d, "diff") /\ sent[d] = <<>>) =>
              outcome[d] = <<"NoChangeNeeded">>

C10_Witness ==
    /\ \E d \in Devs : pc[d] = "close" /\ Len(sent[d]) = 1 /\ diff[d] # <<>>
    /\ \E d \in Devs : pc[d] = "close" /\ Did(d, "diff") /\ diff[d] = <<>>

\* C11: a finished run of configure_device has logged exactly one outcome,
\* Applied, NoChangeNeeded or Failed.
C11_ExactlyOneOutcome ==
    \A d \in Devs :
        /\ Len(outcome[d]) <= 1
        /\ pc[d] = "done" =>
              /\ Len(outcome[d]) = 1
              /\ outcome[d][1] \in {"Applied", "NoChangeNeeded", "Failed"}

HostnamesDistinct ==
    \A d \in Devs, e \in Devs : d # e => devices[d].hostname # devices[e].hostname

\* C16: a backup file is opened only by orchestrations of its hostname, so
\* with distinct hostnames every backup file has at most one writer in a run.
C16_OneWriterPerFile ==
    /\ \A h \in Hosts : \A d \in file[h].writers : devices[d].hostname = h
    /\ HostnamesDistinct => \A h \in Hosts : Cardinality(file[h].writers) <= 1

\* Two orchestrations of one hostname have the same backup file open at the
\* same time, with different texts to write.
C16_Witness ==
    /\ max_workers >= 2
    /\ \E d \in Devs, e \in Devs :
          /\ d # e
          /\ devices[d].hostname = devices[e].hostname
          /\ pc[d] = "backup_write" /\ pc[e] = "backup_write"
          /\ config[d] # config[e]

\* The texts the successful fetches of device d returned, in order.
FetchedTexts(d) ==
    LET idx == {i \in 1..Len(trace[d]) :
                  trace[d][i].op = "send_command" /\ trace[d][i].ok}
        RECURSIVE Pick(_)
        Pick(s) == IF s = {} THEN <<>>
                   ELSE LET i == CHOOSE x \in s : \A y \in s : x <= y
                        IN  <<trace[d][i].val>> \o Pick(s \ {i})
    IN  Pick(idx)

\* The text the render of device d returned (once a render succeeded).
RenderedText(d) == trace[d][FirstIndex(d, "render")].val

\* C17 as stated: the running configuration is fetched once and the text
\* backed up is the text diffed.
C17_AsStated ==
    \A d \in Devs :
        Did(d, "diff") =>
            /\ Count(d, "send_command") = 1
            /\ \A i \in 1..Len(FetchedTexts(d)) : FetchedTexts(d)[i] = FetchedTexts(d)[1]

\* C17 amended: the running configuration is fetched twice; the first text is
\* the one backed up, the second the one diffed, and the two line sequences
\* agree when the device returned the same text both times.
C17_BackupFirstDiffSecond ==
    \A d \in Devs :
        Did(d, "diff") =>
            /\ Count(d, "send_command") = 2
            /\ Len(FetchedTexts(d)) = 2
            /\ HostnamesDistinct =>
                  file[devices[d].hostname].content = FetchedTexts(d)[1]
            /\ pc[d] # "done" =>
                  /\ config[d] = FetchedTexts(d)[1]
                  /\ current_config[d] = SplitLines(FetchedTexts(d)[2])
                  /\ FetchedTexts(d)[1] = FetchedTexts(d)[2] =>
                        current_config[d] = SplitLines(config[d])

C17_Witness ==
    \E d \in Devs :
        /\ pc[d] = "close"
        /\ Did(d, "diff")
        /\ FetchedTexts(d)[1] # FetchedTexts(d)[2]
        /\ SplitLines(config[d]) # current_config[d]

\* C18: when the fetched text equals the rendered text the compared line
\* sequences are equal, the diff is empty and nothing is sent.
C18_NoDriftNoSend ==
    \A d \in Devs :
        (Did(d, "diff") /\ Len(FetchedTexts(d)) = 2
                        /\ FetchedTexts(d)[2] = RenderedText(d)) =>
            /\ sent[d] = <<>>
            /\ pc[d] # "done" =>
                  current_config[d] = new_config[d] /\ diff[d] = <<>>

\* ---------------------------------------------------------------- main
DefaultMaxWorkers == 5

\* What the ARP sweep can return: nothing, or an address that is not in the
\* inventory.
DiscoveryResults == {<<>>, <<NumDevices + 1>>}

runVars == <<coordVars, poolVars, pc, localVars, trace, outcome, sent, raised, file>>

\* The program started: nothing is loaded and nothing has run.
InitMain ==
    /\ mpc = "discover"
    /\ args_discover \in BOOLEAN
    /\ inventory \in Inventories
    /\ arp_sent = FALSE
    /\ discovered_devices = <<>>
    /\ devices = <<>>
    /\ max_workers = DefaultMaxWorkers
    /\ cpc = "idle"
    /\ submitted = 0
    /\ queue = <<>>
    /\ numThreads = 0
    /\ idleSem = 0
    /\ yielded = {}
    /\ coordRaised = FALSE
    /\ pc = <<>>
    /\ connection = <<>>
    /\ config = <<>>
    /\ new_config = <<>>
    /\ current_config = <<>>
    /\ diff = <<>>
    /\ trace = <<>>
    /\ outcome = <<>>
    /\ sent = <<>>
    /\ raised = <<>>
    /\ file = [h \in Hosts |-> NoFile]

\* main: if args.discover, discover_devices: ip_network raises on a bad
\* network before anything is sent, otherwise srp sends the sweep and the
\* answers are logged.
Discover ==
    /\ mpc = "discover"
    /\ args_discover
    /\ \/ /\ mpc' = "failed"
          /\ UNCHANGED <<arp_sent, discovered_devices>>
       \/ /\ arp_sent' = TRUE
          /\ discovered_devices' \in DiscoveryResults
          /\ mpc' = "load_devices"
    /\ UNCHANGED <<devices, max_workers, args_discover, inventory, runVars>>

\* main: no --discover.
SkipDiscover ==
    /\ mpc = "discover"
    /\ ~args_discover
    /\ mpc' = "load_devices"
    /\ UNCHANGED <<devices, max_workers, args_discover, inventory, arp_sent,
                   discovered_devices, runVars>>

\* main has the list l as its devices; no record of it has been dispatched.
Loaded(l) ==
    /\ devices' = l
    /\ pc' = [d \in 1..Len(l) |-> "unsubmitted"]
    /\ connection' = [d \in 1..Len(l) |-> FALSE]
    /\ config' = [d \in 1..Len(l) |-> <<>>]
    /\ new_config' = [d \in 1..Len(l) |-> <<>>]
    /\ current_config' = [d \in 1..Len(l) |-> <<>>]
    /\ diff' = [d \in 1..Len(l) |-> <<>>]
    /\ trace' = [d \in 1..Len(l) |-> <<>>]
    /\ outcome' = [d \in 1..Len(l) |-> <<>>]
    /\ sent' = [d \in 1..Len(l) |-> <<>>]
    /\ raised' = [d \in 1..Len(l) |-> FALSE]

\* Variant of LoadDevices that adds the discovered addresses to the list.
LoadDevicesAddsDiscovered ==
    /\ mpc = "load_devices"
    /\ \/ /\ Loaded(inventory \o
                    [i \in 1..Len(discovered_devices) |-> Rec(discovered_devices[i], TRUE)])
          /\ mpc' = "load_template"
       \/ /\ mpc' = "setup_failed"
          /\ UNCHANGED <<devices, pc, localVars, trace, outcome, sent, raised>>
    /\ UNCHANGED <<max_workers, args_discover, inventory, arp_sent,
                   discovered_devices, coordVars, poolVars, file>>

\* main: devices = load_devices(args.devices): the list in the file, or an
\* exception (no file, bad YAML) that ends the program.
LoadDevices ==
    /\ mpc = "load_devices"
    /\ \/ /\ Loaded(inventory)
          /\ mpc' = "load_template"
       \/ /\ mpc' = "setup_failed"
          /\ UNCHANGED <<devices, pc, localVars, trace, outcome, sent, raised>>
    /\ UNCHANGED <<max_workers, args_discover, inventory, arp_sent,
                   discovered_devices, coordVars, poolVars, file>>

\* main: template = load_template(args.template), or an exception that ends
\* the program.
LoadTemplate ==
    /\ mpc = "load_template"
    /\ mpc' \in {"configure", "setup_failed"}
    /\ UNCHANGED <<devices, max_workers, args_discover, inventory, arp_sent,
                   discovered_devices, runVars>>

\* main: configure_devices_parallel(devices, template, args.backup_dir).
CallConfigure ==
    /\ mpc = "configure"
    /\ cpc = "idle"
    /\ cpc' = "submit"
    /\ UNCHANGED <<inputVars, submitted, yielded, coordRaised, poolVars, pc,
                   localVars, trace, outcome, sent, raised, file>>

\* main: configure_devices_parallel is over; main returns, or ends with the
\* exception it raised.
MainExit ==
    /\ mpc = "configure"
    /\ cpc = "returned"
    /\ mpc' = IF coordRaised THEN "failed" ELSE "exit"
    /\ UNCHANGED <<devices, max_workers, args_discover, inventory, arp_sent,
                   discovered_devices, runVars>>

NextMain ==
    \/ Discover
    \/ SkipDiscover
    \/ LoadDevices
    \/ LoadTemplate
    \/ CallConfigure
    \/ MainExit
    \/ Next

SpecMain == InitMain /\ [][NextMain]_vars

\* C14: when loading the inventory or the template fails, nothing has been
\* sent to any host: no ARP sweep, no call on any device, no backup file.
C14_NoContactOnSetupFailure ==
    mpc = "setup_failed" =>
        /\ ~arp_sent
        /\ \A d \in Devs : trace[d] = <<>>
        /\ \A h \in Hosts : file[h] = NoFile

\* C15: configure_devices_parallel is called with exactly the list of the
\* inventory file, whatever discovery returned, and no record is dispatched
\* before discovery and loading are over.
C15_DiscoveryLeavesDevices ==
    /\ cpc # "idle" =>
          /\ devices = inventory
          /\ mpc \in {"configure", "exit", "failed"}
    /\ cpc = "idle" => \A d \in Devs : pc[d] = "unsubmitted"
    /\ cpc \in {"loop", "shutdown", "returned"} =>
          {d \in Devs : pc[d] # "unsubmitted"} = 1..Len(inventory)
    /\ mpc \in {"discover", "load_devices"} => devices = <<>>

C15_Witness ==
    /\ args_discover
    /\ discovered_devices # <<>>
    /\ cpc = "returned"
    /\ \A d \in Devs : Did(d, "build")
    /\ N >= 1

\* The devices whose log holds exactly the outcome line o.
Logged(o) == {d \in Devs : outcome[d] = <<o>>}

\* C13: when configure_devices_parallel is over, the outcomes it leaves (its
\* log lines, the only aggregate the code produces) count every device once,
\* applied + noChange + failed = number of devices, and every device with a
\* failed call or an escaped exception is among the failed ones.
C13_ReportComplete ==
    cpc = "returned" =>
        /\ Cardinality(Logged("Applied")) + Cardinality(Logged("NoChangeNeeded"))
              + Cardinality(Logged("Failed")) = N
        /\ \A d \in Devs :
              (raised[d] \/ \E i \in 1..Len(trace[d]) : ~trace[d][i].ok) =>
                  d \in Logged("Failed")

\* ------------------------------------------------- the three-device fleet
\* The inventory of the scenario: three complete records, distinct hostnames.
ScenarioFleet == <<Rec(1, TRUE), Rec(2, TRUE), Rec(3, TRUE)>>

\* configure_devices_parallel is called with three complete records of
\* distinct hostnames.
InitE2E ==
    /\ devices = ScenarioFleet
    /\ max_workers \in 1..MaxWorkers
    /\ cpc = "submit"
    /\ submitted = 0
    /\ queue = <<>>
    /\ numThreads = 0
    /\ idleSem = 0
    /\ yielded = {}
    /\ coordRaised = FALSE
    /\ pc = [d \in DOMAIN ScenarioFleet |-> "unsubmitted"]
    /\ connection = [d \in DOMAIN ScenarioFleet |-> FALSE]
    /\ config = [d \in DOMAIN ScenarioFleet |-> <<>>]
    /\ new_config = [d \in DOMAIN ScenarioFleet |-> <<>>]
    /\ current_config = [d \in DOMAIN ScenarioFleet |-> <<>>]
    /\ diff = [d \in DOMAIN ScenarioFleet |-> <<>>]
    /\ trace = [d \in DOMAIN ScenarioFleet |-> <<>>]
    /\ outcome = [d \in DOMAIN ScenarioFleet |-> <<>>]
    /\ sent = [d \in DOMAIN ScenarioFleet |-> <<>>]
    /\ raised = [d \in DOMAIN ScenarioFleet |-> FALSE]
    /\ file = [h \in 1..Len(ScenarioFleet) + 1 |-> NoFile]
    /\ mpc = "configure"
    /\ args_discover = FALSE
    /\ inventory = devices
    /\ arp_sent = FALSE
    /\ discovered_devices = <<>>

SpecE2E == InitE2E /\ [][Next]_vars

\* The run of d is over and every call it made succeeded.
Clean(d) ==
    /\ pc[d] = "done"
    /\ Len(Body(trace[d])) >= 8
    /\ \A i \in 1..Len(trace[d]) : trace[d][i].ok

\* u could not be reached, n had the desired configuration, x had another.
Scenario(u, n, x) ==
    /\ cpc = "returned"
    /\ u # n /\ u # x /\ n # x
    /\ DidFail(u, "connect")
    /\ Clean(n) /\ ~Drift(Body(trace[n]))
    /\ Clean(x) /\ Drift(Body(trace[x]))

\* The outcomes of the scenario, as logged: x applied, n needed no change, u
\* failed and its only failed call is connect; one send_config_set call in
\* the fleet, made for x with its rendered configuration.
ScenarioOutcome(u, n, x) ==
    /\ Logged("Applied") = {x}
    /\ Logged("NoChangeNeeded") = {n}
    /\ Logged("Failed") = {u}
    /\ trace[u] = <<Ev("build", TRUE, <<>>), Ev("connect", FALSE, <<>>)>>
    /\ ~coordRaised
    /\ sent[u] = <<>> /\ sent[n] = <<>>
    /\ sent[x] = <<Split(Body(trace[x])[6].val)>>
    /\ Count(x, "send_config_set") = 1

BackupFiles == {h \in DOMAIN file : file[h].exists}

InitDevice ==
    /\ devices = <<Rec(1, TRUE)>>
    /\ max_workers = 1
    /\ cpc = "idle"
    /\ submitted = 0
    /\ queue = <<>>
    /\ numThreads = 0
    /\ idleSem = 0
    /\ yielded = {}
    /\ coordRaised = FALSE
    /\ pc = <<"api">>
    /\ connection = <<FALSE>>
    /\ config = <<<<>>>>
    /\ new_config = <<<<>>>>
    /\ current_config = <<<<>>>>
    /\ diff = <<<<>>>>
    /\ trace = <<<<>>>>
    /\ outcome = <<<<>>>>
    /\ sent = <<<<>>>>
    /\ raised = <<FALSE>>
    /\ file = [h \in Hosts |-> NoFile]
    /\ mpc = "api"
    /\ args_discover = FALSE
    /\ inventory = devices
    /\ arp_sent = FALSE
    /\ discovered_devices = <<>>

apiVars == <<inputVars, coordVars, poolVars, pc, config, new_config,
             current_config, diff, outcome, raised, file>>

\* A call is made on the object while the history is short of MaxCalls.
CanCall == pc = <<"api">> /\ Len(trace[1]) < MaxCalls

\* connect: ConnectHandler either returns a new connection, which is
\* assigned to self.connection, or raises and self.connection is as before.
CallConnect ==
    /\ CanCall
    /\ \E ok \in BOOLEAN :
          /\ trace' = Log(1, "connect", ok, <<>>)
          /\ connection' = IF ok THEN [connection EXCEPT ![1] = TRUE] ELSE connection
    /\ UNCHANGED <<apiVars, sent>>

\* send_command: raises when self.connection is not set, otherwise the
\* command goes to self.connection.
CallSendCommand ==
    /\ CanCall
    /\ IF ~connection[1]
       THEN trace' = Log(1, "refused", FALSE, <<>>)
       ELSE \E ok \in BOOLEAN :
              trace' = Log(1, "send_command", ok, IF ok THEN <<"a">> ELSE <<>>)
    /\ UNCHANGED <<apiVars, connection, sent>>

\* get_config: self.send_command("show running-config").
CallGetConfig ==
    /\ CanCall
    /\ IF ~connection[1]
       THEN trace' = Log(1, "refused", FALSE, <<>>)
       ELSE \E ok \in BOOLEAN :
              trace' = Log(1, "send_command", ok, IF ok THEN <<"a">> ELSE <<>>)
    /\ UNCHANGED <<apiVars, connection, sent>>

\* send_config_set: raises when self.connection is not set, otherwise the
\* lines go to self.connection.
CallSendConfigSet ==
    /\ CanCall
    /\ IF ~connection[1]
       THEN /\ trace' = Log(1, "refused", FALSE, <<>>)
            /\ UNCHANGED sent
       ELSE \E ok \in BOOLEAN :
              /\ trace' = Log(1, "send_config_set", ok, <<>>)
              /\ sent' = [sent EXCEPT ![1] = Append(@, <<<<"a">>>>)]
    /\ UNCHANGED <<apiVars, connection>>

\* close: disconnects self.connection when it is set, and leaves
\* self.connection as it is.
CallClose ==
    /\ CanCall
    /\ IF connection[1]
       THEN \E ok \in BOOLEAN : trace' = Log(1, "disconnect", ok, <<>>)
       ELSE trace' = Log(1, "close", TRUE, <<>>)
    /\ UNCHANGED <<apiVars, connection, sent>>

NextDevice ==
    \/ CallConnect
    \/ CallSendCommand
    \/ CallGetConfig
    \/ CallSendConfigSet
    \/ CallClose

SpecDevice == InitDevice /\ [][NextDevice]_vars

\* Call i of history tr reached the underlying connection.
Reaches(tr, i) == tr[i].op \in {"send_command", "send_config_set"}

\* C19: for any sequence of calls on one NetworkDevice, a command reaches
\* the underlying connection only after a successful connect and never after
\* a disconnect, and a connection is not disconnected twice (two disconnects
\* have a successful connect between them).
C19_SessionLifecycle ==
    pc = <<"api">> =>
        LET tr == trace[1]
        IN  /\ \A i \in 1..Len(tr) :
                  Reaches(tr, i) =>
                      /\ \E j \in 1..(i - 1) : tr[j].op = "connect" /\ tr[j].ok
                      /\ ~\E j \in 1..(i - 1) : tr[j].op = "disconnect"
            /\ \A i \in 1..Len(tr), j \in 1..Len(tr) :
                  (i < j /\ tr[i].op = "disconnect" /\ tr[j].op = "disconnect") =>
                      \E k \in (i + 1)..(j - 1) : tr[k].op = "connect" /\ tr[k].ok

====
